---- MODULE Spec2Model ----
(***************************************************************************)
(* RunCommand.run of spotty (src/spotty/commands/run.py): one invocation   *)
(* resolves the image, provisions the project bucket, syncs the project,   *)
(* assembles the CloudFormation template, creates the stack and waits for  *)
(* it.  Runs follow one another; the buckets and stacks held by the        *)
(* provider persist from one run to the next.  A second invocation can     *)
(* run beside the first, as a separate process at the same provider.       *)
(*                                                                         *)
(* Strings that the code takes apart (startswith, endswith, lower, join)   *)
(* are sequences of one-character strings; Python dicts are functions      *)
(* whose DOMAIN is the set of keys present.                                *)
(***************************************************************************)
EXTENDS Integers, Sequences, FiniteSets, TLC

\* ------------------------------------------------------------------ bounds

\* Longest configured port list.
MaxPorts == 2
\* Largest volume and snapshot size, in GB.
MaxSize == 2
\* Most entries an inventory listing returns.
MaxResults == 2
\* Most polls that observe the waiting status in one run.
MaxPolls == 1

\* Project names, regions and the tokens random_string can return.
ProjectNames == {<<"F">>, <<"f", "-", "b">>}
Regions == {<<"e">>, <<"w">>}
RandomTokens == {<<"a">>, <<"b">>}
KeyNames == {"", "key"}
PortValues == {22, 80, 443}

\* ---------------------------------------------------------------- strings

LowerChar(c) == IF c = "F" THEN "f" ELSE IF c = "B" THEN "b" ELSE c

\* str.lower
Lower(s) == [i \in 1..Len(s) |-> LowerChar(s[i])]

\* str.startswith
StartsWith(s, p) == Len(p) <= Len(s) /\ SubSeq(s, 1, Len(p)) = p

\* str.endswith
EndsWith(s, x) == Len(x) <= Len(s) /\ SubSeq(s, Len(s) - Len(x) + 1, Len(s)) = x

RECURSIVE Join(_, _)
\* sep.join(parts)
Join(sep, parts) ==
    IF parts = <<>> THEN <<>>
    ELSE IF Len(parts) = 1 THEN parts[1]
    ELSE parts[1] \o sep \o Join(sep, Tail(parts))

Dash == <<"-">>
SpottyPrefix == <<"s", "p", "o", "t", "t", "y", "-">>
InstancePrefix == SpottyPrefix \o <<"i", "n", "s", "t", "a", "n", "c", "e", "-">>

\* ------------------------------------------------------------------ dicts

\* d[k] = v on a dict
Put(d, k, v) == [x \in (DOMAIN d) \cup {k} |-> IF x = k THEN v ELSE d[x]]

\* del d[k]
Del(d, k) == [x \in (DOMAIN d) \ {k} |-> d[x]]

\* d.get(k, default)
Get(d, k, default) == IF k \in DOMAIN d THEN d[k] ELSE default

\* --------------------------------------------------------- configuration

AmiName == "docker-ami"
SnapshotName == "project-snapshot"
InstanceType == "p2.xlarge"
RemoteDir == "/workspace/project"

SizeOptions == {<<>>} \cup {[size |-> n] : n \in 1..MaxSize}
DeleteOptions == {<<>>} \cup {[deleteOnTermination |-> b] : b \in BOOLEAN}

\* config['volumes'][0]: snapshotName always, size and deleteOnTermination optional
Volumes ==
    {[snapshotName |-> SnapshotName] @@ s @@ d : s \in SizeOptions, d \in DeleteOptions}

\* The configured port lists, repetitions included; set(ports) is all run() reads of
\* a list, so the lists are taken in ascending order.
PortLists ==
    {p \in UNION {[1..n -> PortValues] : n \in 0..MaxPorts} :
        \A i \in 1..(Len(p) - 1) : p[i] <= p[i + 1]}

\* The configurations of project `names` in `regions`.
ConfigsOf(names, regions, keys, volumes, ports) ==
    [projectName : names, region : regions, keyName : keys,
     amiName : {AmiName}, volume : volumes, ports : ports]

\* One instance configuration: no key, a volume of 1 GB, no ports.
PlainVolume == [snapshotName |-> SnapshotName, size |-> 1]

\* Runs in one region: of one project with every instance configuration, of the
\* others with the plain one.
Configs ==
    ConfigsOf({<<"F">>}, {<<"e">>}, KeyNames, Volumes, PortLists)
        \cup ConfigsOf(ProjectNames, {<<"e">>}, {""}, {PlainVolume}, {<<>>})

\* Runs of every project in every region, with the plain instance configuration.
RegionConfigs == ConfigsOf(ProjectNames, Regions, {""}, {PlainVolume}, {<<>>})

\* stack_name = 'spotty-instance-%s' % project_name
StackName(project_name) == InstancePrefix \o project_name

\* bucket_prefix = 'spotty-%s' % project_name.lower()
BucketPrefix(project_name) == SpottyPrefix \o Lower(project_name)

\* bucket_name = '-'.join([bucket_prefix, random_string(12), region])
NewBucketName(bucket_prefix, token, region) == Join(Dash, <<bucket_prefix, token, region>>)

\* [bucket for bucket in res['Buckets'] if startswith(bucket_prefix) and endswith(region)]
MatchingBuckets(all, bucket_prefix, region) ==
    {b \in all : StartsWith(b, bucket_prefix) /\ EndsWith(b, region)}

\* --------------------------------------------------------------- template

Rule4(port) == [CidrIp |-> "0.0.0.0/0", IpProtocol |-> "tcp", FromPort |-> port, ToPort |-> port]
Rule6(port) == [CidrIpv6 |-> "::/0", IpProtocol |-> "tcp", FromPort |-> port, ToPort |-> port]

\* The SSH rules the base template already carries.
BaseIngress == <<Rule4(22), Rule6(22)>>

BaseParameters ==
    {"VpcId", "InstanceType", "ImageId", "VolumeMountDirectory", "DockerDataRootDirectory",
     "DockerImage", "DockerfilePath", "ProjectS3Bucket", "ProjectDirectory", "KeyName"}

\* data_dir('run_container.yaml') as loaded: the parts run() reads or edits.
BaseTemplate ==
    [Parameters |-> [p \in BaseParameters |-> "String"],
     LaunchSpecification |-> [ImageId |-> "Ref ImageId", InstanceType |-> "Ref InstanceType",
                              KeyName |-> "Ref KeyName"],
     Volume1 |-> [DeletionPolicy |-> "Snapshot",
                  Properties |-> [AvailabilityZone |-> "GetAtt"]],
     DeleteSnapshot |-> [Properties |-> [ServiceToken |-> "GetAtt"]],
     SecurityGroupIngress |-> BaseIngress]

\* Lines 92-95: remove the KeyName parameter and its reference if no key is given.
RemoveKeyName(t, key_name) ==
    IF key_name = ""
    THEN [t EXCEPT !.Parameters = Del(@, "KeyName"),
                   !.LaunchSpecification = Del(@, "KeyName")]
    ELSE t

\* BindSnapshot with the DeleteSnapshot resource bound whatever deleteOnTermination is.
BindSnapshotAlways(t, volume, snapshot) ==
    [t EXCEPT !.Volume1.Properties = Put(@, "SnapshotId", snapshot.SnapshotId),
              !.DeleteSnapshot.Properties = Put(@, "SnapshotId", snapshot.SnapshotId)]

\* Lines 109-115: bind the snapshot to the volume and, unless the volume is deleted
\* on termination, to the DeleteSnapshot resource.
BindSnapshot(t, volume, snapshot) ==
    LET t1 == [t EXCEPT !.Volume1.Properties = Put(@, "SnapshotId", snapshot.SnapshotId)]
    IN  IF ~Get(volume, "deleteOnTermination", FALSE)
        THEN [t1 EXCEPT !.DeleteSnapshot.Properties = Put(@, "SnapshotId", snapshot.SnapshotId)]
        ELSE t1

\* SetVolume with the test of deleteOnTermination inverted: the policy becomes Delete
\* when the option is false or absent.
SetVolumeDeleteInverted(t, volume) ==
    LET t1 == IF "size" \in DOMAIN volume
              THEN [t EXCEPT !.Volume1.Properties = Put(@, "Size", volume.size)]
              ELSE t
        t2 == IF ~Get(volume, "deleteOnTermination", FALSE)
              THEN [t1 EXCEPT !.Volume1.DeletionPolicy = "Delete"]
              ELSE t1
    IN  [t2 EXCEPT !.Volume1.Properties =
            Put(@, "Tags", <<[Key |-> "Name", Value |-> volume.snapshotName]>>)]

\* Lines 126-135: size, deletion policy and Name tag of the volume.
SetVolume(t, volume) ==
    LET t1 == IF "size" \in DOMAIN volume
              THEN [t EXCEPT !.Volume1.Properties = Put(@, "Size", volume.size)]
              ELSE t
        t2 == IF Get(volume, "deleteOnTermination", FALSE)
              THEN [t1 EXCEPT !.Volume1.DeletionPolicy = "Delete"]
              ELSE t1
    IN  [t2 EXCEPT !.Volume1.Properties =
            Put(@, "Tags", <<[Key |-> "Name", Value |-> volume.snapshotName]>>)]

\* The orders in which a Python set can be iterated.
Orders(S) == {o \in [1..Cardinality(S) -> S] : \A i, j \in DOMAIN o : i # j => o[i] # o[j]}

\* set(ports)
ToSet(ports) == {ports[i] : i \in DOMAIN ports}

RECURSIVE AddPorts(_, _)
\* Lines 144-157: the loop over set(ports), in iteration order `order`.
AddPorts(ingress, order) ==
    IF order = <<>> THEN ingress
    ELSE LET port == Head(order)
         IN  IF port # 22
             THEN AddPorts(ingress \o <<Rule4(port), Rule6(port)>>, Tail(order))
             ELSE AddPorts(ingress, Tail(order))

Param(k, v) == [ParameterKey |-> k, ParameterValue |-> v]

\* BuildParams with the KeyName parameter appended whatever the key.
BuildParamsAlwaysKey(cfg, vpc, ami, bucket) ==
    <<Param("VpcId", vpc),
      Param("InstanceType", InstanceType),
      Param("ImageId", ami),
      Param("VolumeMountDirectory", Get(cfg.volume, "directory", "")),
      Param("DockerDataRootDirectory", ""),
      Param("DockerImage", ""),
      Param("DockerfilePath", ""),
      Param("ProjectS3Bucket", bucket),
      Param("ProjectDirectory", RemoteDir),
      Param("KeyName", cfg.keyName)>>

\* Lines 160-172: the parameter list.
BuildParams(cfg, vpc, ami, bucket) ==
    LET params == <<Param("VpcId", vpc),
                    Param("InstanceType", InstanceType),
                    Param("ImageId", ami),
                    Param("VolumeMountDirectory", Get(cfg.volume, "directory", "")),
                    Param("DockerDataRootDirectory", ""),
                    Param("DockerImage", ""),
                    Param("DockerfilePath", ""),
                    Param("ProjectS3Bucket", bucket),
                    Param("ProjectDirectory", RemoteDir)>>
    IN  IF cfg.keyName # ""
        THEN Append(params, Param("KeyName", cfg.keyName))
        ELSE params

\* -------------------------------------------------------------- inventory

\* What describe_images, describe_snapshots and describe_vpcs can return.
ImageLists == {[i \in 1..n |-> [ImageId |-> <<"ami", i>>]] : n \in 0..MaxResults}

SnapshotLists ==
    {[i \in 1..n |-> [SnapshotId |-> <<"snap", i>>, VolumeSize |-> sz]] :
        n \in 0..MaxResults, sz \in 1..MaxSize}

VpcLists == {[i \in 1..n |-> [VpcId |-> <<"vpc", i>>]] : n \in 0..MaxResults}

WaitingStatus == "CREATE_IN_PROGRESS"

\* The CloudFormation statuses a look at a stack under creation can find.
Statuses ==
    {"CREATE_IN_PROGRESS", "CREATE_COMPLETE", "CREATE_FAILED",
     "ROLLBACK_IN_PROGRESS", "ROLLBACK_COMPLETE", "ROLLBACK_FAILED",
     "DELETE_IN_PROGRESS", "DELETE_COMPLETE", "DELETE_FAILED"}

IpRow(ip) == [OutputKey |-> "InstanceIpAddress", OutputValue |-> ip]
OtherRow == [OutputKey |-> "VolumeId", OutputValue |-> "vol-1"]

\* The Outputs a completed stack can carry; <<>> as a dict is a stack without the key.
OutputOptions ==
    {<<>>} \cup {[Outputs |-> o] :
                    o \in {<<OtherRow>>, <<IpRow("1.2.3.4")>>, <<OtherRow, IpRow("5.6.7.8")>>}}

\* The stacks describe_stacks can return: only a created stack has outputs.
Stacks ==
    {[StackStatus |-> st] @@ o :
        st \in Statuses, o \in OutputOptions} \ 
    {[StackStatus |-> st] @@ o : st \in Statuses \ {"CREATE_COMPLETE"}, o \in OutputOptions \ {<<>>}}

\* -------------------------------------------------------------- decisions

\* StackCheck with the answer of stack_exists ignored.
StackCheckIgnored(exists) == "free"

\* Line 44: what run() makes of the answer of stack_exists.
StackCheck(exists) == IF exists THEN "exists" ELSE "free"

\* ImageCheck with the guided exit lost: anything but one image is an error.
ImageCheckNoGuide(images) == IF Len(images) # 1 THEN "several" ELSE "one"

\* Lines 54-59: what run() makes of the images describe_images returned.
ImageCheck(images) ==
    IF Len(images) = 0 THEN "not_found"
    ELSE IF Len(images) > 1 THEN "several"
    ELSE "one"

\* Lines 69-78: what run() makes of the buckets that match.
BucketCheck(found) ==
    IF Cardinality(found) > 1 THEN "several"
    ELSE IF Cardinality(found) = 0 THEN "create"
    ELSE "reuse"

\* VolumeCheck with the test of line 104 lost: a new volume needs no size.
VolumeCheckNewUnsized(volume, res) ==
    IF Len(res) = 0 THEN "new"
    ELSE IF Len(res) > 1 THEN "several"
    ELSE IF "size" \notin DOMAIN volume THEN "restore"
    ELSE IF volume.size < res[1].VolumeSize THEN "too_small"
    ELSE IF volume.size > res[1].VolumeSize THEN "grow"
    ELSE "restore"

\* VolumeCheck with <= for <: a volume of the snapshot's size is refused.
VolumeCheckStrict(volume, res) ==
    IF Len(res) = 0
    THEN IF "size" \notin DOMAIN volume THEN "size_required" ELSE "new"
    ELSE IF Len(res) > 1 THEN "several"
    ELSE IF "size" \notin DOMAIN volume THEN "restore"
    ELSE IF volume.size <= res[1].VolumeSize THEN "too_small"
    ELSE "grow"

\* Lines 103-124: what run() makes of the snapshots and the configured size.
VolumeCheck(volume, res) ==
    IF Len(res) = 0
    THEN IF "size" \notin DOMAIN volume THEN "size_required" ELSE "new"
    ELSE IF Len(res) > 1 THEN "several"
    ELSE IF "size" \notin DOMAIN volume THEN "restore"
    ELSE IF volume.size < res[1].VolumeSize THEN "too_small"
    ELSE IF volume.size > res[1].VolumeSize THEN "grow"
    ELSE "restore"

\* Line 139: is there a default VPC.
VpcCheck(res) == IF Len(res) = 0 THEN "not_found" ELSE "found"

\* PortOrders without set(): the loop visits the list as configured.
PortOrdersOfList(ports) == {ports}

\* Line 145: the orders in which the loop can visit the ports.
PortOrders(ports) == Orders(ToSet(ports))

\* IsComplete taking every *_COMPLETE status for a created stack.
IsAnyComplete(st) == st \in {"CREATE_COMPLETE", "ROLLBACK_COMPLETE", "DELETE_COMPLETE"}

\* Line 188: did the stack get created.
IsComplete(st) == st = "CREATE_COMPLETE"

IsIpRow(row) == row.OutputKey = "InstanceIpAddress"

Msg(text, args) == [text |-> text, args |-> args]
Error(type, kind, arg) == [type |-> type, kind |-> kind, arg |-> arg]
NoError == Error("", "", <<>>)

\* IpAddresses without the filter on the output key.
IpAddressesUnfiltered(stk) == stk.Outputs

\* Line 189: the InstanceIpAddress values among the outputs of the stack.
IpAddresses(stk) == SelectSeq(stk.Outputs, IsIpRow)

\* Outcome with the else branch lost: a stack that was not created ends the run
\* without a word.
OutcomeSilent(st, stk, stack_name) ==
    IF IsComplete(st)
    THEN IF "Outputs" \notin DOMAIN stk
         THEN [raised |-> Error("KeyError", "Outputs", <<>>), written |-> <<>>]
         ELSE IF IpAddresses(stk) = <<>>
         THEN [raised |-> Error("IndexError", "InstanceIpAddress", <<>>), written |-> <<>>]
         ELSE [raised |-> NoError,
               written |-> <<Msg("StackCreated", <<stack_name>>),
                             Msg("IpAddress", <<IpAddresses(stk)[1].OutputValue>>)>>]
    ELSE [raised |-> NoError, written |-> <<>>]

\* Outcome with a default for a missing address: success is reported without one.
OutcomeLenient(st, stk, stack_name) ==
    IF IsComplete(st)
    THEN [raised |-> NoError,
          written |-> <<Msg("StackCreated", <<stack_name>>),
                        Msg("IpAddress",
                            IF "Outputs" \in DOMAIN stk /\ IpAddresses(stk) # <<>>
                            THEN <<IpAddresses(stk)[1].OutputValue>>
                            ELSE <<"">>)>>]
    ELSE [raised |-> Error("ValueError", "StackNotCreated", stack_name), written |-> <<>>]

\* Lines 188-194: what run() writes and raises once the wait is over.
Outcome(st, stk, stack_name) ==
    IF IsComplete(st)
    THEN IF "Outputs" \notin DOMAIN stk
         THEN [raised |-> Error("KeyError", "Outputs", <<>>), written |-> <<>>]
         ELSE IF IpAddresses(stk) = <<>>
         THEN [raised |-> Error("IndexError", "InstanceIpAddress", <<>>), written |-> <<>>]
         ELSE [raised |-> NoError,
               written |-> <<Msg("StackCreated", <<stack_name>>),
                             Msg("IpAddress", <<IpAddresses(stk)[1].OutputValue>>)>>]
    ELSE [raised |-> Error("ValueError", "StackNotCreated", stack_name), written |-> <<>>]

\* NextStep with the snapshot and the default VPC looked up before the bucket is
\* provisioned and the project synced.
NextStepResolveFirst(step) ==
    CASE step = "check_stack" -> "describe_images"
      [] step = "describe_images" -> "template"
      [] step = "template" -> "describe_snapshots"
      [] step = "describe_snapshots" -> "describe_vpcs"
      [] step = "describe_vpcs" -> "list_buckets"
      [] step = "list_buckets" -> "create_bucket"
      [] step = "create_bucket" -> "sync"
      [] step = "sync" -> "create_stack"
      [] step = "create_stack" -> "wait"

\* NextStep with the stack submitted before the default VPC is looked up.
NextStepSubmitEarly(step) ==
    CASE step = "check_stack" -> "describe_images"
      [] step = "describe_images" -> "list_buckets"
      [] step = "list_buckets" -> "create_bucket"
      [] step = "create_bucket" -> "sync"
      [] step = "sync" -> "template"
      [] step = "template" -> "describe_snapshots"
      [] step = "describe_snapshots" -> "create_stack"
      [] step = "create_stack" -> "describe_vpcs"
      [] step = "describe_vpcs" -> "wait"

\* The order of the statements of run(): the step that follows `step`.
NextStep(step) ==
    CASE step = "check_stack" -> "describe_images"
      [] step = "describe_images" -> "list_buckets"
      [] step = "list_buckets" -> "create_bucket"
      [] step = "create_bucket" -> "sync"
      [] step = "sync" -> "template"
      [] step = "template" -> "describe_snapshots"
      [] step = "describe_snapshots" -> "describe_vpcs"
      [] step = "describe_vpcs" -> "create_stack"
      [] step = "create_stack" -> "wait"

\* ------------------------------------------------------------------ state

VARIABLES
    buckets,      \* S3: the names of the buckets that exist
    created,      \* history: <<project name, region, bucket>> for every create_bucket
    pc,           \* where the current run stands
    config,       \* its configuration
    ami_id, bucket_name, template, snapshots, vpc_id, params,  \* locals of run()
    status, stack,  \* what wait_for_status_changed returned
    output,       \* the messages written to the output writer
    calls,        \* the calls made to AWS, in order
    raised,       \* the exception that ended the run, NoError if none
    parked        \* the other process while this one runs, NoProcess if there is none

vars == <<buckets, created, pc, config, ami_id, bucket_name, template, snapshots,
          vpc_id, params, status, stack, output, calls, raised, parked>>

provider == <<buckets, created>>
locals == <<ami_id, bucket_name, template, snapshots, vpc_id, params, status, stack>>

Call(op, arg) == [op |-> op, arg |-> arg]

\* How often the run called `op`.
Count(op) == Cardinality({i \in DOMAIN calls : calls[i].op = op})

\* The run called `op`.
Called(op) == \E i \in DOMAIN calls : calls[i].op = op

\* Where in the order of its calls the run first called `op`.
First(op) == CHOOSE i \in DOMAIN calls : calls[i].op = op /\ \A j \in 1..(i - 1) : calls[j].op # op

\* The argument of the run's last call of `op`.
ArgOf(op) ==
    calls[CHOOSE i \in DOMAIN calls :
              calls[i].op = op /\ \A j \in (i + 1)..Len(calls) : calls[j].op # op].arg

\* How often the run wrote the message `text`.
Written(text) == Cardinality({i \in DOMAIN output : output[i].text = text})

NoProcess == <<>>

InitOf(configs) ==
    /\ parked = NoProcess
    /\ buckets = {}
    /\ created = {}
    /\ pc = "check_stack"
    /\ config \in configs
    /\ ami_id = <<>> /\ bucket_name = <<>> /\ template = <<>> /\ snapshots = <<>>
    /\ vpc_id = <<>> /\ params = <<>> /\ status = "" /\ stack = <<>>
    /\ output = <<>>
    /\ calls = <<>>
    /\ raised = NoError

Init == InitOf(Configs)

\* raise: the run ends with the exception, whatever it did so far stays done.
Raise(e) == pc' = "done" /\ raised' = e

\* run() has returned or raised: the process ends, what it did at the provider stays.
Exit ==
    /\ pc = "done"
    /\ pc' = "exited"
    /\ config' = <<>>
    /\ ami_id' = <<>> /\ bucket_name' = <<>> /\ template' = <<>> /\ snapshots' = <<>>
    /\ vpc_id' = <<>> /\ params' = <<>> /\ status' = "" /\ stack' = <<>>
    /\ output' = <<>>
    /\ calls' = <<>>
    /\ raised' = NoError
    /\ UNCHANGED <<provider, parked>>

\* The next invocation of run() (lines 23-41), with a configuration of `configs`.
Start(configs) ==
    /\ pc = "exited"
    /\ pc' = "check_stack"
    /\ config' \in configs
    /\ UNCHANGED <<provider, parked, locals, output, calls, raised>>

\* Lines 43-46: the stack must not exist yet.  Whether it does is the provider's
\* answer: an earlier run or another tool created it, "spotty stop" deleted it.
CheckStack ==
    /\ pc = "check_stack"
    /\ \E exists \in BOOLEAN :
         /\ calls' = Append(calls, Call("stack_exists", exists))
         /\ IF StackCheck(exists) = "exists"
            THEN Raise(Error("ValueError", "StackExists", StackName(config.projectName)))
            ELSE pc' = NextStep("check_stack") /\ UNCHANGED raised
    /\ UNCHANGED <<provider, parked, config, locals, output>>

\* Lines 48-61: exactly one image with the configured name.
DescribeImages ==
    /\ pc = "describe_images"
    /\ \E images \in ImageLists :
         /\ calls' = Append(calls, Call("describe_images", Len(images)))
         /\ CASE ImageCheck(images) = "not_found" ->
                   /\ output' = output \o <<Msg("ImageNotFound", <<config.amiName>>),
                                            Msg("UseCreateAmi", <<>>)>>
                   /\ pc' = "done"
                   /\ UNCHANGED <<raised, ami_id>>
              [] ImageCheck(images) = "several" ->
                   /\ Raise(Error("ValueError", "SeveralImages", <<config.amiName>>))
                   /\ UNCHANGED <<output, ami_id>>
              [] ImageCheck(images) = "one" ->
                   /\ ami_id' = images[1].ImageId
                   /\ pc' = NextStep("describe_images")
                   /\ UNCHANGED <<output, raised>>
    /\ UNCHANGED <<provider, parked, config, bucket_name, template, snapshots, vpc_id, params,
                   status, stack>>

\* Lines 63-70 and 77-78: the buckets of this project and region.  With several
\* matches, ', '.join(buckets) is applied to the bucket dicts and raises TypeError
\* before the ValueError is built.
ListBuckets ==
    /\ pc = "list_buckets"
    /\ LET found == MatchingBuckets(buckets, BucketPrefix(config.projectName), config.region)
       IN  /\ calls' = Append(calls, Call("list_buckets", found))
           /\ CASE BucketCheck(found) = "several" ->
                     /\ Raise(Error("TypeError", "JoinOfDicts", <<>>))
                     /\ UNCHANGED bucket_name
                [] BucketCheck(found) = "create" ->
                     /\ pc' = NextStep("list_buckets")
                     /\ UNCHANGED <<raised, bucket_name>>
                [] BucketCheck(found) = "reuse" ->
                     /\ bucket_name' = CHOOSE b \in found : TRUE
                     /\ pc' = NextStep("create_bucket")
                     /\ UNCHANGED raised
    /\ UNCHANGED <<provider, parked, config, ami_id, template, snapshots, vpc_id, params,
                   status, stack, output>>

\* Lines 72-76: no bucket yet, create one with a random token in its name.
CreateBucket ==
    /\ pc = "create_bucket"
    /\ \E token \in RandomTokens :
         LET name == NewBucketName(BucketPrefix(config.projectName), token, config.region)
         IN  /\ bucket_name' = name
             /\ buckets' = buckets \cup {name}
             /\ created' = created \cup {<<config.projectName, config.region, name>>}
             /\ calls' = Append(calls, Call("create_bucket", name))
             /\ output' = Append(output, Msg("BucketCreated", <<name>>))
    /\ pc' = NextStep("create_bucket")
    /\ UNCHANGED <<parked, config, ami_id, template, snapshots, vpc_id, params,
                   status, stack, raised>>

\* Lines 80-84: sync the project directory to the bucket.
Sync ==
    /\ pc = "sync"
    /\ output' = Append(output, Msg("Syncing", <<>>))
    /\ calls' = Append(calls, Call("s3_sync", bucket_name))
    /\ pc' = NextStep("sync")
    /\ UNCHANGED <<provider, parked, config, locals, raised>>

\* Lines 86-95: load the template, drop KeyName if no key is configured.
PrepareTemplate ==
    /\ pc = "template"
    /\ output' = Append(output, Msg("Running", <<>>))
    /\ template' = RemoveKeyName(BaseTemplate, config.keyName)
    /\ pc' = NextStep("template")
    /\ UNCHANGED <<provider, parked, config, ami_id, bucket_name, snapshots, vpc_id, params,
                   status, stack, calls, raised>>

\* Lines 97-135: the snapshot with the configured name, and the volume built on it.
DescribeSnapshots ==
    /\ pc = "describe_snapshots"
    /\ \E res \in SnapshotLists :
         LET volume == config.volume
             check == VolumeCheck(volume, res)
         IN  /\ snapshots' = res
             /\ calls' = Append(calls, Call("describe_snapshots", Len(res)))
             /\ CASE check = "size_required" ->
                       /\ Raise(Error("ValueError", "SizeRequired", <<volume.snapshotName>>))
                       /\ UNCHANGED <<template, output>>
                  [] check = "several" ->
                       /\ Raise(Error("ValueError", "SeveralSnapshots", <<config.amiName>>))
                       /\ UNCHANGED <<template, output>>
                  [] check = "too_small" ->
                       /\ Raise(Error("ValueError", "VolumeTooSmall", <<>>))
                       /\ template' = BindSnapshot(template, volume, res[1])
                       /\ UNCHANGED output
                  [] check = "new" ->
                       /\ template' = SetVolume(template, volume)
                       /\ pc' = NextStep("describe_snapshots")
                       /\ UNCHANGED <<raised, output>>
                  [] check \in {"restore", "grow"} ->
                       /\ output' =
                            IF check = "grow"
                            THEN Append(output, Msg("SizeIncreased",
                                                    <<res[1].VolumeSize, volume.size>>))
                            ELSE output
                       /\ template' = SetVolume(BindSnapshot(template, volume, res[1]), volume)
                       /\ pc' = NextStep("describe_snapshots")
                       /\ UNCHANGED raised
    /\ UNCHANGED <<provider, parked, config, ami_id, bucket_name, vpc_id, params, status, stack>>

\* Lines 137-172: the default VPC, the ingress rules of the ports, the parameters.
DescribeVpcs ==
    /\ pc = "describe_vpcs"
    /\ \E res \in VpcLists :
         /\ calls' = Append(calls, Call("describe_vpcs", Len(res)))
         /\ CASE VpcCheck(res) = "not_found" ->
                   /\ Raise(Error("ValueError", "NoDefaultVpc", <<>>))
                   /\ UNCHANGED <<vpc_id, template, params>>
              [] VpcCheck(res) = "found" ->
                   /\ vpc_id' = res[1].VpcId
                   /\ \E order \in PortOrders(config.ports) :
                        template' = [template EXCEPT !.SecurityGroupIngress = AddPorts(@, order)]
                   /\ params' = BuildParams(config, res[1].VpcId, ami_id, bucket_name)
                   /\ pc' = NextStep("describe_vpcs")
                   /\ UNCHANGED raised
    /\ UNCHANGED <<provider, parked, config, ami_id, bucket_name, snapshots, status, stack,
                   output>>

\* The request of lines 174-180.
StackRequest(stack_name, body, parameters) ==
    [StackName |-> stack_name, TemplateBody |-> body, Parameters |-> parameters,
     Capabilities |-> <<"CAPABILITY_IAM">>, OnFailure |-> "DELETE"]

\* Lines 174-182: submit the stack.
CreateStack ==
    /\ pc = "create_stack"
    /\ calls' = Append(calls, Call("create_stack",
                                   StackRequest(StackName(config.projectName), template, params)))
    /\ output' = Append(output, Msg("Waiting", <<>>))
    /\ pc' = NextStep("create_stack")
    /\ UNCHANGED <<provider, parked, config, ami_id, bucket_name, template, snapshots, vpc_id,
                   params, status, stack, raised>>

\* wait_for_status_changed (lines 184-186) looks at the stack and finds the waiting
\* status: the wait goes on.
Poll ==
    /\ pc = "wait"
    /\ Count("poll") < MaxPolls
    /\ calls' = Append(calls, Call("poll", WaitingStatus))
    /\ UNCHANGED <<provider, parked, pc, config, locals, output, raised>>

\* wait_for_status_changed finds the stack in another status and returns both
\* (lines 184-186); run() reports the address of the instance or fails (lines 188-194).
Report ==
    /\ pc = "wait"
    /\ \E found \in Stacks :
         /\ found.StackStatus # WaitingStatus
         /\ calls' = Append(calls, Call("poll", found.StackStatus))
         /\ status' = found.StackStatus
         /\ stack' = found
         /\ LET outcome == Outcome(found.StackStatus, found, StackName(config.projectName))
            IN  /\ output' = output \o outcome.written
                /\ raised' = outcome.raised
                /\ pc' = "done"
    /\ UNCHANGED <<provider, parked, config, ami_id, bucket_name, template, snapshots, vpc_id, params>>

\* Every step of a run after its start.
Step ==
    \/ CheckStack
    \/ DescribeImages
    \/ ListBuckets
    \/ CreateBucket
    \/ Sync
    \/ PrepareTemplate
    \/ DescribeSnapshots
    \/ DescribeVpcs
    \/ CreateStack
    \/ Poll
    \/ Report
    \/ Exit

Next == Start(Configs) \/ Step

Spec == Init /\ [][Next]_vars

\* The same runs, in every region.
InitRegions == InitOf(RegionConfigs)

NextRegions == Start(RegionConfigs) \/ Step

SpecRegions == InitRegions /\ [][NextRegions]_vars

\* The runs of SpecRegions at a provider that in the end shows every stack in a
\* status other than the waiting one: the poll that finds it is not put off for ever.
SpecFair == InitRegions /\ [][NextRegions]_vars /\ WF_vars(Report)

\* ------------------------------------------------------------ two processes

\* Two invocations of run() for the same project and region, as two processes.
RaceConfigs == ConfigsOf({<<"F">>}, {<<"e">>}, {""}, {PlainVolume}, {<<>>})

\* All that belongs to the running process: where it stands, its locals, its log.
Context ==
    [pc |-> pc, config |-> config, ami_id |-> ami_id, bucket_name |-> bucket_name,
     template |-> template, snapshots |-> snapshots, vpc_id |-> vpc_id, params |-> params,
     status |-> status, stack |-> stack, output |-> output, calls |-> calls,
     raised |-> raised]

\* A process that has just entered run() with configuration `cfg`.
Entered(cfg) ==
    [pc |-> "check_stack", config |-> cfg, ami_id |-> <<>>, bucket_name |-> <<>>,
     template |-> <<>>, snapshots |-> <<>>, vpc_id |-> <<>>, params |-> <<>>,
     status |-> "", stack |-> <<>>, output |-> <<>>, calls |-> <<>>, raised |-> NoError]

\* The scheduler takes the running process off and puts the other one on, between
\* two statements of run(); what the provider holds is shared and stays.
Switch ==
    /\ parked # NoProcess
    /\ parked' = Context
    /\ pc' = parked.pc
    /\ config' = parked.config
    /\ ami_id' = parked.ami_id
    /\ bucket_name' = parked.bucket_name
    /\ template' = parked.template
    /\ snapshots' = parked.snapshots
    /\ vpc_id' = parked.vpc_id
    /\ params' = parked.params
    /\ status' = parked.status
    /\ stack' = parked.stack
    /\ output' = parked.output
    /\ calls' = parked.calls
    /\ raised' = parked.raised
    /\ UNCHANGED provider

InitRace ==
    /\ buckets = {}
    /\ created = {}
    /\ pc = "check_stack"
    /\ config \in RaceConfigs
    /\ ami_id = <<>> /\ bucket_name = <<>> /\ template = <<>> /\ snapshots = <<>>
    /\ vpc_id = <<>> /\ params = <<>> /\ status = "" /\ stack = <<>>
    /\ output = <<>>
    /\ calls = <<>>
    /\ raised = NoError
    /\ parked = Entered(config)

NextRace == Start(RaceConfigs) \/ Step \/ Switch

SpecRace == InitRace /\ [][NextRace]_vars

\* ----------------------------------------------------------------- claims

\* A run is in progress or has just ended.
Active == pc # "exited"
Did(op) == Active /\ Called(op)
Submitted == Did("create_stack")
Request == ArgOf("create_stack")
HasParam(ps, k) == \E i \in DOMAIN ps : ps[i].ParameterKey = k
ParamValue(ps, k) == ps[CHOOSE i \in DOMAIN ps : ps[i].ParameterKey = k].ParameterValue
HasIpOutput(stk) == "Outputs" \in DOMAIN stk /\ \E i \in DOMAIN stk.Outputs : IsIpRow(stk.Outputs[i])
Polled == pc = "done" /\ status # ""

\* C1: when describe_images returns no image, run() writes the two guiding messages
\* and returns without raising, and has called neither create_bucket nor s3 sync nor
\* create_stack.
C1_ZeroImagesGuidedExit ==
    (Did("describe_images") /\ ArgOf("describe_images") = 0) =>
        /\ pc = "done"
        /\ raised = NoError
        /\ output = <<Msg("ImageNotFound", <<config.amiName>>), Msg("UseCreateAmi", <<>>)>>
        /\ Count("create_bucket") = 0
        /\ Count("s3_sync") = 0
        /\ Count("create_stack") = 0

C1_Witness ==
    /\ Did("describe_images") /\ ArgOf("describe_images") = 0
    /\ pc = "done" /\ raised = NoError /\ Written("ImageNotFound") = 1

\* C2: when the image lookup, the bucket filter or the snapshot lookup yields two or
\* more matches, run() ends with the ambiguity error of that kind of resource and has
\* made no create_stack call.
C2_AmbiguityError ==
    /\ (Did("describe_images") /\ ArgOf("describe_images") > 1) =>
           /\ pc = "done" /\ raised.type = "ValueError" /\ raised.kind = "SeveralImages"
           /\ Count("create_stack") = 0
    /\ (Did("list_buckets") /\ Cardinality(ArgOf("list_buckets")) > 1) =>
           /\ pc = "done" /\ raised.type = "ValueError" /\ raised.kind = "SeveralBuckets"
           /\ Count("create_stack") = 0
    /\ (Did("describe_snapshots") /\ ArgOf("describe_snapshots") > 1) =>
           /\ pc = "done" /\ raised.type = "ValueError" /\ raised.kind = "SeveralSnapshots"
           /\ Count("create_stack") = 0

\* The buckets earlier runs created for this run's project name and region.
EarlierBuckets ==
    {e[3] : e \in {x \in created : x[1] = config.projectName /\ x[2] = config.region}}
        \ (IF Count("create_bucket") > 0 THEN {ArgOf("create_bucket")} ELSE {})

\* C3: once a run has created the bucket of a project name and region, every later run
\* for that project name and region finds exactly that bucket, syncs into it and passes
\* it as ProjectS3Bucket, and calls create_bucket no more.
C3_BucketReused ==
    (Did("list_buckets") /\ EarlierBuckets # {}) =>
        /\ ArgOf("list_buckets") = EarlierBuckets
        /\ Cardinality(EarlierBuckets) = 1
        /\ pc # "create_bucket"
        /\ Count("create_bucket") = 0
        /\ Did("s3_sync") => ArgOf("s3_sync") \in EarlierBuckets
        /\ Submitted => ParamValue(Request.Parameters, "ProjectS3Bucket") \in EarlierBuckets

\* How a run ends on a violated precondition; several buckets end it in the TypeError
\* of the join.
PreconditionKinds ==
    {"StackExists", "SeveralImages", "JoinOfDicts", "SeveralSnapshots", "SizeRequired",
     "VolumeTooSmall", "NoDefaultVpc"}

\* C4: a run that ends on a violated precondition has made no create_stack call and
\* has never polled the stack.
C4_PreconditionBeforeSubmission ==
    (pc = "done" /\ raised.kind \in PreconditionKinds) =>
        /\ Count("create_stack") = 0
        /\ Count("poll") = 0
        /\ status = ""

C4_Witness ==
    /\ pc = "done" /\ raised.kind = "NoDefaultVpc"
    /\ Did("s3_sync") /\ Count("create_stack") = 0

\* C5: in every submitted request the template declares the KeyName parameter iff the
\* launch specification refers to it iff the parameter list has a KeyName entry, and
\* that is so exactly when a key name is configured.
C5_KeyNameConsistent ==
    Submitted =>
        LET declared == "KeyName" \in DOMAIN Request.TemplateBody.Parameters
            referred == "KeyName" \in DOMAIN Request.TemplateBody.LaunchSpecification
            passed == HasParam(Request.Parameters, "KeyName")
        IN  /\ declared <=> referred
            /\ referred <=> passed
            /\ passed <=> (config.keyName # "")
            /\ passed => ParamValue(Request.Parameters, "KeyName") = config.keyName

C5_Witness ==
    /\ Submitted /\ config.keyName = ""
    /\ "KeyName" \notin DOMAIN Request.TemplateBody.Parameters
    /\ ~HasParam(Request.Parameters, "KeyName")

\* The run moved past the snapshot lookup.
PastSnapshots == pc = "describe_vpcs" \/ Did("describe_vpcs") \/ Submitted

\* C6: with one snapshot found and a size configured, a size below the snapshot's ends
\* the run with VolumeTooSmall and no stack; a size above it lets the run go on with
\* one grow notice and the submitted volume has the requested Size; an equal size lets
\* it go on with no notice.  A submitted volume that binds a snapshot and declares a
\* Size is never smaller than the snapshot.
C6_VolumeSizing ==
    /\ (Did("describe_snapshots") /\ Len(snapshots) = 1 /\ "size" \in DOMAIN config.volume) =>
           LET size == config.volume.size
               snap == snapshots[1].VolumeSize
           IN  /\ size < snap =>
                      /\ pc = "done" /\ raised.kind = "VolumeTooSmall"
                      /\ Count("create_stack") = 0
               /\ size > snap =>
                      /\ PastSnapshots
                      /\ Written("SizeIncreased") = 1
                      /\ Submitted => Request.TemplateBody.Volume1.Properties.Size = size
               /\ size = snap =>
                      /\ PastSnapshots
                      /\ Written("SizeIncreased") = 0
                      /\ Submitted => Request.TemplateBody.Volume1.Properties.Size = size
    /\ Submitted =>
           LET props == Request.TemplateBody.Volume1.Properties
           IN  ("SnapshotId" \in DOMAIN props /\ "Size" \in DOMAIN props) =>
                   /\ Len(snapshots) = 1
                   /\ props.Size >= snapshots[1].VolumeSize

C6_Witness ==
    /\ Submitted /\ Len(snapshots) = 1 /\ "size" \in DOMAIN config.volume
    /\ config.volume.size > snapshots[1].VolumeSize
    /\ Written("SizeIncreased") = 1
    /\ Request.TemplateBody.Volume1.Properties.Size = config.volume.size

\* How often `rule` is in the list `rules`.
Occurrences(rules, rule) == Cardinality({i \in DOMAIN rules : rules[i] = rule})

\* C7: the rules added to the ingress list are one IPv4 and one IPv6 TCP rule for each
\* distinct configured port other than 22 and nothing else, after the rules of the base
\* template, which stay as they were.
C7_PortRules ==
    (Did("describe_vpcs") /\ ArgOf("describe_vpcs") > 0) =>
        LET ingress == template.SecurityGroupIngress
            base == Len(BaseIngress)
            added == SubSeq(ingress, base + 1, Len(ingress))
            wanted == ToSet(config.ports) \ {22}
        IN  /\ Len(ingress) >= base
            /\ SubSeq(ingress, 1, base) = BaseIngress
            /\ \A p \in wanted :
                   Occurrences(added, Rule4(p)) = 1 /\ Occurrences(added, Rule6(p)) = 1
            /\ Len(added) = 2 * Cardinality(wanted)
            /\ Submitted => Request.TemplateBody.SecurityGroupIngress = ingress

C7_Witness ==
    /\ Submitted /\ config.ports = <<80, 80>>
    /\ Len(Request.TemplateBody.SecurityGroupIngress) = Len(BaseIngress) + 2

\* The address the stack the wait returned carries.
StackIp == stack.Outputs[CHOOSE i \in DOMAIN stack.Outputs : IsIpRow(stack.Outputs[i])].OutputValue

\* C8: a run whose wait ends in CREATE_COMPLETE with an InstanceIpAddress output has
\* made one create_stack call, for spotty-instance-<projectName> with OnFailure DELETE,
\* after the sync and before the first poll, and ends without error having written the
\* stack name and the address of that output.
C8_EndToEnd ==
    (Polled /\ status = "CREATE_COMPLETE" /\ HasIpOutput(stack)) =>
        /\ raised = NoError
        /\ ArgOf("stack_exists") = FALSE
        /\ ArgOf("describe_images") = 1
        /\ Count("create_stack") = 1
        /\ Request.StackName = InstancePrefix \o config.projectName
        /\ Request.OnFailure = "DELETE"
        /\ Count("s3_sync") = 1
        /\ First("s3_sync") < First("create_stack")
        /\ First("create_stack") < First("poll")
        /\ Len(output) >= 2
        /\ SubSeq(output, Len(output) - 1, Len(output)) =
               <<Msg("StackCreated", <<Request.StackName>>), Msg("IpAddress", <<StackIp>>)>>
        /\ Written("StackCreated") = 1
        /\ Written("IpAddress") = 1

C8_Witness ==
    /\ Polled /\ status = "CREATE_COMPLETE" /\ raised = NoError
    /\ Len(snapshots) = 0 /\ "size" \in DOMAIN config.volume
    /\ Written("IpAddress") = 1 /\ Count("create_stack") = 1

\* The run reported success.
Success == raised = NoError /\ Written("StackCreated") = 1

\* What C9 says of every status but CREATE_COMPLETE: the error names the stack, nothing
\* of a success is written, the stack is not submitted again.
FailsUnlessComplete ==
    status # "CREATE_COMPLETE" =>
        /\ raised = Error("ValueError", "StackNotCreated", StackName(config.projectName))
        /\ Written("StackCreated") = 0
        /\ Written("IpAddress") = 0
        /\ Count("create_stack") = 1

\* C9 as claimed: run() reports success iff the first status other than
\* CREATE_IN_PROGRESS that the wait finds is CREATE_COMPLETE, and on every other status
\* it fails with the error that names the stack, writes no success and no address and
\* submits no second stack.
C9_SuccessIffComplete ==
    Polled => /\ Success <=> status = "CREATE_COMPLETE"
              /\ FailsUnlessComplete

\* C9 as amended: run() reports success iff that status is CREATE_COMPLETE and the
\* stack carries an InstanceIpAddress output; on every other status it fails as claimed.
C9_SuccessIffCompleteWithAddress ==
    Polled => /\ Success <=> (status = "CREATE_COMPLETE" /\ HasIpOutput(stack))
              /\ FailsUnlessComplete

C9_Witness ==
    /\ Polled /\ status = "ROLLBACK_COMPLETE"
    /\ raised.kind = "StackNotCreated" /\ Count("create_stack") = 1

\* C10: when the wait ends in CREATE_COMPLETE and the stack carries no InstanceIpAddress
\* output, run() ends with an error and has written neither the success message nor an
\* address.
C10_MissingAddressFatal ==
    (Polled /\ status = "CREATE_COMPLETE" /\ ~HasIpOutput(stack)) =>
        /\ raised # NoError
        /\ Written("StackCreated") = 0
        /\ Written("IpAddress") = 0

C10_Witness ==
    /\ Polled /\ status = "CREATE_COMPLETE"
    /\ "Outputs" \in DOMAIN stack /\ ~HasIpOutput(stack)
    /\ raised.type = "IndexError"

\* C11: the run takes a VPC id only when describe_vpcs returns exactly one default VPC:
\* none ends it with NoDefaultVpc, several end it with an ambiguity error, and no stack
\* is submitted with a VpcId picked among several.
C11_NetworkUniqueness ==
    Did("describe_vpcs") =>
        /\ ArgOf("describe_vpcs") = 0 =>
               /\ pc = "done" /\ raised.kind = "NoDefaultVpc"
               /\ Count("create_stack") = 0
        /\ ArgOf("describe_vpcs") > 1 =>
               /\ pc = "done" /\ raised.type = "ValueError" /\ raised.kind = "SeveralVpcs"
               /\ Count("create_stack") = 0
        /\ Submitted => ArgOf("describe_vpcs") = 1

\* How a run ends when the snapshot, the volume size or the default VPC is refused.
LateKinds == {"SeveralSnapshots", "SizeRequired", "VolumeTooSmall", "NoDefaultVpc"}

\* The place of a call in the order of the statements of run().
Rank(op) ==
    CASE op = "stack_exists" -> 1
      [] op = "describe_images" -> 2
      [] op = "list_buckets" -> 3
      [] op = "create_bucket" -> 4
      [] op = "s3_sync" -> 5
      [] op = "describe_snapshots" -> 6
      [] op = "describe_vpcs" -> 7
      [] op = "create_stack" -> 8
      [] op = "poll" -> 9

C13_StackCheckFirst ==
    /\ (Active /\ calls # <<>>) => calls[1].op = "stack_exists"
    /\ (Did("stack_exists") /\ ArgOf("stack_exists") = TRUE) =>
           /\ pc = "done"
           /\ raised = Error("ValueError", "StackExists", InstancePrefix \o config.projectName)
           /\ calls = <<Call("stack_exists", TRUE)>>
           /\ output = <<>>
           /\ ami_id = <<>> /\ bucket_name = <<>> /\ snapshots = <<>> /\ vpc_id = <<>>

C13_Witness ==
    /\ pc = "done" /\ raised.kind = "StackExists"
    /\ Len(calls) = 1 /\ output = <<>>

\* config.volume asks for deletion on termination; absent counts as false.
DeleteOnTermination == Get(config.volume, "deleteOnTermination", FALSE)

\* C14: when describe_snapshots returns no snapshot, a volume without size ends the run
\* with the "size required" error and no stack; a volume with a size lets the run go
\* on, and the template it submits has the configured Size on the volume and no
\* SnapshotId on the volume nor on the DeleteSnapshot resource.
C14_NewVolume ==
    (Did("describe_snapshots") /\ ArgOf("describe_snapshots") = 0) =>
        /\ "size" \notin DOMAIN config.volume =>
               /\ pc = "done"
               /\ raised = Error("ValueError", "SizeRequired", <<config.volume.snapshotName>>)
               /\ Count("create_stack") = 0
        /\ "size" \in DOMAIN config.volume =>
               /\ PastSnapshots
               /\ raised.kind \notin {"SizeRequired", "SeveralSnapshots", "VolumeTooSmall"}
               /\ template.Volume1.Properties.Size = config.volume.size
               /\ "SnapshotId" \notin DOMAIN template.Volume1.Properties
               /\ "SnapshotId" \notin DOMAIN template.DeleteSnapshot.Properties
               /\ Submitted => Request.TemplateBody = template

C14_Witness ==
    /\ Submitted /\ ArgOf("describe_snapshots") = 0
    /\ Request.TemplateBody.Volume1.Properties.Size = config.volume.size
    /\ "SnapshotId" \notin DOMAIN Request.TemplateBody.Volume1.Properties
    /\ "SnapshotId" \notin DOMAIN Request.TemplateBody.DeleteSnapshot.Properties

\* C15: in every submitted template the volume carries a SnapshotId iff exactly one
\* snapshot was found, the DeleteSnapshot resource carries one iff exactly one was found
\* and deleteOnTermination is false or absent, and each one carried is the id of the
\* snapshot found.
C15_SnapshotBinding ==
    Submitted =>
        LET vol == Request.TemplateBody.Volume1.Properties
            del == Request.TemplateBody.DeleteSnapshot.Properties
            one == ArgOf("describe_snapshots") = 1
        IN  /\ ("SnapshotId" \in DOMAIN vol) <=> one
            /\ ("SnapshotId" \in DOMAIN del) <=> (one /\ ~DeleteOnTermination)
            /\ "SnapshotId" \in DOMAIN vol => vol.SnapshotId = snapshots[1].SnapshotId
            /\ "SnapshotId" \in DOMAIN del => del.SnapshotId = vol.SnapshotId

C15_Witness ==
    /\ Submitted /\ ArgOf("describe_snapshots") = 1
    /\ "deleteOnTermination" \notin DOMAIN config.volume
    /\ "SnapshotId" \in DOMAIN Request.TemplateBody.Volume1.Properties
    /\ "SnapshotId" \in DOMAIN Request.TemplateBody.DeleteSnapshot.Properties

\* C16: in every submitted template the volume's deletion policy is Delete iff
\* deleteOnTermination is true, and is the base template's policy when it is false or
\* absent; no submitted template has both the policy Delete and a SnapshotId on the
\* DeleteSnapshot resource.
C16_DeletionPolicy ==
    Submitted =>
        LET policy == Request.TemplateBody.Volume1.DeletionPolicy
            del == Request.TemplateBody.DeleteSnapshot.Properties
        IN  /\ policy = "Delete" <=> DeleteOnTermination
            /\ ~DeleteOnTermination => policy = BaseTemplate.Volume1.DeletionPolicy
            /\ ~(policy = "Delete" /\ "SnapshotId" \in DOMAIN del)

C16_Witness ==
    /\ Submitted /\ ArgOf("describe_snapshots") = 1
    /\ "deleteOnTermination" \in DOMAIN config.volume /\ config.volume.deleteOnTermination
    /\ Request.TemplateBody.Volume1.DeletionPolicy = "Delete"
    /\ "SnapshotId" \notin DOMAIN Request.TemplateBody.DeleteSnapshot.Properties

\* Nothing is reported yet: no success, no address, no error, no status returned.
NoOutcomeYet ==
    /\ raised = NoError
    /\ status = ""
    /\ Written("StackCreated") = 0
    /\ Written("IpAddress") = 0

\* The run reported success or raised an error, and not both.
OneOutcome ==
    \/ raised = NoError /\ Written("StackCreated") = 1 /\ Written("IpAddress") = 1
    \/ raised # NoError /\ Written("StackCreated") = 0 /\ Written("IpAddress") = 0

\* C17: while run() waits, every poll so far found CREATE_IN_PROGRESS and nothing is
\* reported; the wait is left only by a poll that finds another status, there is no
\* other way out of it; a run whose wait is over has exactly one outcome; and if the
\* provider does not show CREATE_IN_PROGRESS for ever, every wait comes to its end.
C17_PollTermination ==
    /\ [](pc = "wait" =>
             /\ NoOutcomeYet
             /\ \A i \in DOMAIN calls : calls[i].op = "poll" => calls[i].arg = WaitingStatus)
    /\ [][(pc = "wait" /\ pc' # "wait") =>
             /\ pc' = "done"
             /\ status' \notin {"", WaitingStatus}
             /\ calls' = Append(calls, Call("poll", status'))]_vars
    /\ [](Polled => OneOutcome)
    /\ (pc = "wait") ~> Polled

C17_Witness ==
    /\ Polled /\ Count("poll") = MaxPolls + 1
    /\ calls[First("poll")].arg = WaitingStatus
    /\ status = "DELETE_COMPLETE" /\ raised.kind = "StackNotCreated"

\* The buckets created, by this run or an earlier one, for this run's lowercased
\* project name and region.
OwnBuckets ==
    {e[3] : e \in {x \in created : Lower(x[1]) = Lower(config.projectName)
                                       /\ x[2] = config.region}}

\* C18: the buckets a run counts as matches, the bucket it syncs into and the bucket it
\* passes as ProjectS3Bucket were all created, by this run or an earlier one, for the
\* same lowercased project name and the same region; the bucket of another project is
\* neither picked nor counted as a match.
C18_BucketDedicated ==
    /\ Did("list_buckets") => ArgOf("list_buckets") \subseteq OwnBuckets
    /\ Did("s3_sync") => ArgOf("s3_sync") \in OwnBuckets
    /\ Submitted => ParamValue(Request.Parameters, "ProjectS3Bucket") \in OwnBuckets

\* C19: with two invocations of run() for the same project and region going on side
\* by side, at most one bucket with the project's prefix and region ever exists, and
\* no run ends in the several-buckets branch.
C19_OneBucketPerProject ==
    /\ \A cfg \in RaceConfigs :
           Cardinality(MatchingBuckets(buckets, BucketPrefix(cfg.projectName), cfg.region)) <= 1
    /\ ~(Did("list_buckets") /\ Cardinality(ArgOf("list_buckets")) > 1)

====
